---- MODULE Spec2Model ----
(***************************************************************************)
(* State-machine model of src/main.py: the URL shortening bot's            *)
(* orchestrator (GuaranteedShortener), its JSON record store (JSONStorage) *)
(* and the message handler that feeds it (handle_all_messages).            *)
(*                                                                         *)
(* Python strings are TLA+ strings; startswith, strip and concatenation    *)
(* are computed on them.  A uuid.uuid4() draw is a fresh value taken from  *)
(* the counter uuids; datetime.utcnow() is the counter now.                *)
(*                                                                         *)
(* Further down: JSON texts as token sequences (json.dumps, json.loads),   *)
(* the queries and the click counter of JSONStorage, and BackupManager     *)
(* (create_backup, restore_backup, create_auto_backup) with the handlers   *)
(* that call them.                                                         *)
(*                                                                         *)
(* Specifications: Spec (requests one at a time), SpecConc (requests       *)
(* overlapping), SpecOps (store operations on a data file left by an       *)
(* earlier run), SpecAll (shorten calls, store operations and automatic    *)
(* backups in one run), SpecBackup (automatic backups on a directory left  *)
(* by earlier runs), SpecSave (requests overlapping, the file write taken  *)
(* step by step).                                                          *)
(***************************************************************************)
EXTENDS Integers, Sequences, FiniteSets, TLC

VARIABLES
    urls,           \* storage.urls: _id -> url_data (the in-memory record store)
    urlsFile,       \* data/urls.json: [readable, data]
    services_used,  \* guaranteed_shortener.services_used
    service_stats,  \* guaranteed_shortener.service_stats: name -> count
    uuids,          \* number of uuid.uuid4() values drawn so far
    now,            \* the clock behind datetime.utcnow()
    requests,       \* number of text messages handed to handle_all_messages
    pc,             \* per worker: position in handle_all_messages / shorten_url
    text,           \* per worker: message.text as it arrived
    url,            \* per worker: user_message after normalisation
    user_id,        \* per worker: message.from_user.id
    idx,            \* per worker: index of the service the loop is at
    short_url,      \* per worker: the local short_url
    phase,          \* per worker: "service", "fallback" or "text" (which add_url call site)
    reg,            \* per worker: value read by an in-progress += on a counter
    url_data,       \* per worker: the url_data dict built by the call (<<>> before)
    attempts,       \* per worker, history: <<[service, raised, val]>> of this call
    writes,         \* per worker, history: outcomes of the file writes of this call
    pre,            \* per worker, history: store and counters when the call began
    failed,         \* history: names of the services that have failed in any call
    OWNER_ID,       \* the OWNER_ID setting: <<>> when unset, <<"id">> otherwise
    backup_dir,     \* auto_backups/: the archives in it, each [name, mtime, urls]
    backup_count,   \* backup_manager.backup_count
    last,           \* history: the latest store or backup operation and its result
    disk,           \* data/urls.json as the bytes in it (JSON tokens), where the
                    \* write of _save_json is followed step by step (SpecSave)
    fbuf            \* per worker: the file object f of _save_json, <<>> when none
                    \* is open, <<buffer>> otherwise

storeVars   == <<urls, urlsFile>>
counterVars == <<services_used, service_stats>>
envVars     == <<uuids, now, requests>>
callVars    == <<pc, text, url, user_id, idx, short_url, phase, reg, url_data>>
histVars    == <<attempts, writes, pre, failed>>
opVars      == <<OWNER_ID, backup_dir, backup_count, last>>
fileVars    == <<disk, fbuf>>
vars        == <<storeVars, counterVars, envVars, callVars, histVars, opVars, fileVars>>

----------------------------------------------------------------------------
(* Bounds of the model *)

\* Text messages handled in one run.
MaxRequests == 2

\* Worker threads that may run handlers at the same time.
NumWorkers == 2

Workers == 1..NumWorkers

----------------------------------------------------------------------------
(* Python string helpers *)

StartsWith(s, p) == Len(s) >= Len(p) /\ SubSeq(s, 1, Len(p)) = p

IsSpace(c) == c \in {" ", "\n", "\t", "\r"}

RECURSIVE LStrip(_)
LStrip(s) ==
    IF Len(s) > 0 /\ IsSpace(SubSeq(s, 1, 1)) THEN LStrip(SubSeq(s, 2, Len(s))) ELSE s

RECURSIVE RStrip(_)
RStrip(s) ==
    IF Len(s) > 0 /\ IsSpace(SubSeq(s, Len(s), Len(s)))
    THEN RStrip(SubSeq(s, 1, Len(s) - 1)) ELSE s

\* str.strip()
Strip(s) == RStrip(LStrip(s))

Contains(s, c) == \E i \in 1..Len(s) : SubSeq(s, i, i) = c

\* s up to (not including) the first occurrence of character c
RECURSIVE Before(_, _)
Before(s, c) ==
    IF Len(s) = 0 \/ SubSeq(s, 1, 1) = c THEN ""
    ELSE SubSeq(s, 1, 1) \o Before(SubSeq(s, 2, Len(s)), c)

\* str(uuid.uuid4()) for the n-th draw: 36 characters, distinct per draw
Uuid4(n) == "0000000" \o ToString(n) \o "-0000-4000-8000-000000000000"

\* datetime.utcnow().isoformat() at tick t of the clock
IsoFormat(t) ==
    "2026-11-02T00:00:" \o (IF t < 10 THEN "0" ELSE "") \o ToString(t)

\* hashlib.md5(url.encode()).hexdigest()[:8], tabulated for the URLs in play
Md5Hex8(u) ==
    CASE u = "https://www.example.com/a/b" -> "8a393a37"
      [] u = "https://not a url"           -> "9aa20ee2"
      [] OTHER                             -> "d41d8cd9"

----------------------------------------------------------------------------
(* Inputs drawn by the environment *)

\* message.text of the inbound messages
Texts ==
    { "www.example.com/a/b", " https://www.example.com/a/b ", "not a url", "/start" }

\* message.from_user.id of the senders
Users == {42, 99}

\* message.from_user.first_name / last_name of the senders
FirstName(uid) == IF uid = 42 THEN "Ada" ELSE "Bob"
LastName(uid)  == IF uid = 42 THEN "Lovelace" ELSE ""

\* What a provider's HTTP endpoint may answer: error is a requests exception
\* (timeout, connection failure); otherwise a status code and a body.
Responses ==
    { [error |-> FALSE, status |-> 200, text |-> "http://is.gd/xyz\n"],
      [error |-> FALSE, status |-> 200, text |-> "httpx://bad"],
      [error |-> FALSE, status |-> 500, text |-> "Error"],
      [error |-> TRUE,  status |-> 0,   text |-> ""] }

\* What the local hash adapter meets: error is hashlib.md5 / str.encode raising
\* (an md5-less FIPS build, a lone surrogate in the URL).
HashEnv == { [error |-> b, status |-> 0, text |-> ""] : b \in BOOLEAN }

\* How a write of a JSON file may end: written, open() raised (file untouched),
\* or json.dump raised after open(..., 'w') truncated the file.
WriteOutcomes == {"ok", "open_fails", "dump_fails"}

----------------------------------------------------------------------------
(* handle_all_messages: normalisation and validation of the inbound text *)

\* validators.url (third-party library), as far as the inputs exercise it:
\* an http(s) scheme, no whitespace, and a dotted host name.
ValidatorsUrl(u) ==
    LET scheme == IF StartsWith(u, "https://") THEN "https://"
                  ELSE IF StartsWith(u, "http://") THEN "http://" ELSE ""
        rest   == SubSeq(u, Len(scheme) + 1, Len(u))
        host   == Before(rest, "/")
    IN  /\ scheme # ""
        /\ ~\E i \in 1..Len(u) : IsSpace(SubSeq(u, i, i))
        /\ Len(host) > 0
        /\ Contains(host, ".")
        /\ ~Contains(host, ":")

\* Mutant of HandleText: the validators.url check is skipped.
HandleTextNoValidation(txt) ==
    LET m == Strip(txt)
    IN  IF StartsWith(m, "/") THEN [kind |-> "ignore", url |-> m]
        ELSE [kind |-> "shorten",
              url |-> IF ~(StartsWith(m, "http://") \/ StartsWith(m, "https://"))
                      THEN "https://" \o m ELSE m]

\* Mutant of HandleText: a text without a scheme is not prefixed.
HandleTextNoPrefix(txt) ==
    LET m == Strip(txt)
    IN  IF StartsWith(m, "/") THEN [kind |-> "ignore", url |-> m]
        ELSE IF ~ValidatorsUrl(m) THEN [kind |-> "reject", url |-> m]
             ELSE [kind |-> "shorten", url |-> m]

\* Lines 960-974: strip, skip commands, prefix https://, validate.
HandleText(txt) ==
    LET m == Strip(txt)
    IN  IF StartsWith(m, "/") THEN [kind |-> "ignore", url |-> m]
        ELSE LET u == IF ~(StartsWith(m, "http://") \/ StartsWith(m, "https://"))
                      THEN "https://" \o m ELSE m
             IN  IF ~ValidatorsUrl(u) THEN [kind |-> "reject", url |-> u]
                 ELSE [kind |-> "shorten", url |-> u]

\* Line 979: f"{first_name} {last_name or ''}".strip()
UserName(uid) == Strip(FirstName(uid) \o " " \o LastName(uid))

----------------------------------------------------------------------------
(* GuaranteedShortener: the services and the acceptance test *)

\* The services list of shorten_url, in its order.
Services == <<"TinyURL Direct", "is.gd Simple", "TinyURL API", "Custom Hash">>

Returned(s) == [raised |-> FALSE, val |-> s]
Raised      == [raised |-> TRUE,  val |-> ""]

\* _tinyurl_direct, _isgd_simple, _tinyurl_api: one GET, then
\* status 200 and a body starting with 'http' -> the stripped body, else raise.
HttpAdapter(resp) ==
    IF resp.error THEN Raised
    ELSE IF resp.status = 200 /\ StartsWith(resp.text, "http")
         THEN Returned(Strip(resp.text))
         ELSE Raised

\* _custom_hash: no network call.
CustomHash(u, env) ==
    IF env.error THEN Raised ELSE Returned("https://tinyurl.com/" \o Md5Hex8(u))

\* service['function'](url)
CallService(name, u, env) ==
    IF name = "Custom Hash" THEN CustomHash(u, env) ELSE HttpAdapter(env)

EnvOf(name) == IF name = "Custom Hash" THEN HashEnv ELSE Responses

\* Mutant of ValidateUrl: the same loose test the adapters apply to the body.
ValidateUrlLoose(s) == StartsWith(s, "http")

\* _validate_url
ValidateUrl(s) == StartsWith(s, "http://") \/ StartsWith(s, "https://")

\* Line 159: short_url and self._validate_url(short_url)
Accepted(out) == ~out.raised /\ out.val # "" /\ ValidateUrl(out.val)

\* Mutant of NextService: the loop stays on the service that just failed.
NextServiceRetry(i) == [pc |-> "try", idx |-> i]

\* Mutant of NextService: the loop gives up after the first failure.
NextServiceGiveUp(i) == [pc |-> "fallback", idx |-> Len(Services) + 1]

\* The for loop moving on (continue), or falling out to line 187.
NextService(i) ==
    IF i < Len(Services) THEN [pc |-> "try", idx |-> i + 1]
    ELSE [pc |-> "fallback", idx |-> i + 1]

\* Lines 157-184: what follows the call of service i.
AfterAttempt(i, out) ==
    IF Accepted(out) THEN [pc |-> "used_rd", idx |-> i] ELSE NextService(i)

\* The url_data dict of lines 164-174, 256-266 and 279-289.
UrlData(id, uid, orig, short, svc, t) ==
    [ _id          |-> id,
      user_id      |-> uid,
      original_url |-> orig,
      short_url    |-> short,
      service_used |-> svc,
      click_count  |-> 0,
      created_at   |-> IsoFormat(t),
      last_clicked |-> <<>>,
      user_name    |-> UserName(uid) ]

\* Mutant of FallbackShortUrl: the scheme is left out.
FallbackShortUrlNoScheme(u) == "short.url/" \o SubSeq(u, 1, 8)

\* Lines 251-254: the short URL of the guaranteed fallback, from a uuid string.
FallbackShortUrl(u) == "https://short.url/" \o SubSeq(u, 1, 8)

\* Lines 277 and 283: the short URL of the text fallback.
TextShortUrl(orig) ==
    "Shortened: " \o (IF Len(orig) > 50 THEN SubSeq(orig, 1, 50) \o "..." ELSE orig)

----------------------------------------------------------------------------
(* JSONStorage *)

\* An empty dict.
EmptyMap == [k \in {} |-> k]

\* Mutant of InsertUrl: the record is filed under its short_url.
InsertUrlByShort(m, rec) ==
    [k \in DOMAIN m \cup {rec.short_url} |-> IF k = rec.short_url THEN rec ELSE m[k]]

\* add_url, lines 84-85: self.urls[url_data['_id']] = url_data
InsertUrl(m, rec) ==
    [k \in DOMAIN m \cup {rec._id} |-> IF k = rec._id THEN rec ELSE m[k]]

\* Mutant of SaveJson: the except clause is missing, a failed write raises.
SaveJsonRaising(file, data, w) ==
    [ raised |-> w # "ok",
      ok     |-> w = "ok",
      file   |-> CASE w = "ok"         -> [readable |-> TRUE, data |-> data]
                   [] w = "open_fails" -> file
                   [] w = "dump_fails" -> [readable |-> FALSE, data |-> EmptyMap] ]

\* _save_json: every exception of the write is caught and turned into False.
SaveJson(file, data, w) ==
    [ raised |-> FALSE,
      ok     |-> w = "ok",
      file   |-> CASE w = "ok"         -> [readable |-> TRUE, data |-> data]
                   [] w = "open_fails" -> file
                   [] w = "dump_fails" -> [readable |-> FALSE, data |-> EmptyMap] ]

\* Where control goes when add_url comes back to its call site: line 180 / 272 /
\* 292 (return url_data) if it returned; if it raised, the except of line 182
\* (next service), the except of line 274 (text fallback), or out of shorten_url.
AfterSave(ph, i, r) ==
    IF ~r.raised THEN [pc |-> "returned", idx |-> i]
    ELSE CASE ph = "service"  -> NextService(i)
           [] ph = "fallback" -> [pc |-> "text_fallback", idx |-> i]
           [] OTHER           -> [pc |-> "error", idx |-> i]

\* dict.get(name, 0)
Get(stats, name) == IF name \in DOMAIN stats THEN stats[name] ELSE 0

\* self.service_stats[name] = v
SetStat(stats, name, v) ==
    [k \in DOMAIN stats \cup {name} |-> IF k = name THEN v ELSE stats[k]]

----------------------------------------------------------------------------
(* Initial state: empty data files, a freshly constructed shortener *)

NoCall == [urls |-> EmptyMap, used |-> 0, stats |-> EmptyMap, failed |-> {}]

\* No store or backup operation has run yet.
NoOp ==
    [ op |-> "none", user |-> 0, id |-> "", ok |-> FALSE, raised |-> FALSE,
      value |-> <<>>, blob |-> <<>>, before |-> EmptyMap,
      dir_before |-> {}, count_before |-> 0 ]

\* The part of the initial state that does not depend on the data files or the
\* settings: counters at zero, every worker idle, no operation run.
InitProcess ==
    /\ services_used = 0
    /\ service_stats = EmptyMap
    /\ requests = 0
    /\ pc = [t \in Workers |-> "idle"]
    /\ text = [t \in Workers |-> ""]
    /\ url = [t \in Workers |-> ""]
    /\ user_id = [t \in Workers |-> 0]
    /\ idx = [t \in Workers |-> 1]
    /\ short_url = [t \in Workers |-> ""]
    /\ phase = [t \in Workers |-> "service"]
    /\ reg = [t \in Workers |-> 0]
    /\ url_data = [t \in Workers |-> <<>>]
    /\ attempts = [t \in Workers |-> <<>>]
    /\ writes = [t \in Workers |-> <<>>]
    /\ pre = [t \in Workers |-> NoCall]
    /\ failed = {}
    /\ backup_count = 0
    /\ last = NoOp
    /\ fbuf = [t \in Workers |-> <<>>]

\* First start: no data file yet, OWNER_ID not set.
Init ==
    /\ InitProcess
    /\ urls = EmptyMap
    /\ urlsFile = [readable |-> TRUE, data |-> EmptyMap]
    /\ uuids = 0
    /\ now = 0
    /\ OWNER_ID = <<>>
    /\ backup_dir = {}
    /\ disk = <<"{", "}">>

----------------------------------------------------------------------------
(* handle_all_messages and shorten_url, step by step *)

\* Lines 958-974 and 977-982 up to the entry of the loop of shorten_url.
Receive(t, txt, uid) ==
    /\ pc[t] = "idle"
    /\ requests < MaxRequests
    /\ requests' = requests + 1
    /\ LET h == HandleText(txt)
       IN  IF h.kind = "ignore"
           THEN UNCHANGED <<pc, text, url, user_id, pre>>
           ELSE /\ pc' = [pc EXCEPT ![t] = IF h.kind = "reject" THEN "reject" ELSE "try"]
                /\ text' = [text EXCEPT ![t] = txt]
                /\ url' = [url EXCEPT ![t] = h.url]
                /\ user_id' = [user_id EXCEPT ![t] = uid]
                /\ pre' = [pre EXCEPT ![t] = [urls |-> urls, used |-> services_used,
                                               stats |-> service_stats,
                                               failed |-> failed]]
    /\ UNCHANGED <<storeVars, counterVars, uuids, now, opVars>>
    /\ UNCHANGED <<idx, short_url, phase, reg, url_data, attempts, writes, failed>>
    /\ UNCHANGED fileVars

\* Lines 156-159 and 182-184: call the service the loop is at.
Attempt(t) ==
    /\ pc[t] = "try"
    /\ \E env \in EnvOf(Services[idx[t]]) :
         LET out == CallService(Services[idx[t]], url[t], env)
             nx  == AfterAttempt(idx[t], out)
         IN  /\ attempts' = [attempts EXCEPT ![t] =
                   Append(@, [service |-> Services[idx[t]],
                              raised |-> out.raised, val |-> out.val])]
             /\ failed' = IF Accepted(out) THEN failed
                          ELSE failed \cup {Services[idx[t]]}
             /\ short_url' = [short_url EXCEPT ![t] = IF out.raised THEN @ ELSE out.val]
             /\ pc' = [pc EXCEPT ![t] = nx.pc]
             /\ idx' = [idx EXCEPT ![t] = nx.idx]
    /\ UNCHANGED <<storeVars, counterVars, envVars, opVars>>
    /\ UNCHANGED <<text, url, user_id, phase, reg, url_data, writes, pre>>
    /\ UNCHANGED fileVars

\* Line 160, self.services_used += 1: the read.
ReadUsed(t) ==
    /\ pc[t] = "used_rd"
    /\ reg' = [reg EXCEPT ![t] = services_used]
    /\ pc' = [pc EXCEPT ![t] = "used_wr"]
    /\ UNCHANGED <<storeVars, counterVars, envVars, histVars, opVars>>
    /\ UNCHANGED <<text, url, user_id, idx, short_url, phase, url_data>>
    /\ UNCHANGED fileVars

\* Line 160: the write.
WriteUsed(t) ==
    /\ pc[t] = "used_wr"
    /\ services_used' = reg[t] + 1
    /\ pc' = [pc EXCEPT ![t] = "stat_rd"]
    /\ UNCHANGED <<storeVars, service_stats, envVars, histVars, opVars>>
    /\ UNCHANGED <<text, url, user_id, idx, short_url, phase, reg, url_data>>
    /\ UNCHANGED fileVars

\* Line 161, service_stats[name] = service_stats.get(name, 0) + 1: the read.
ReadStat(t) ==
    /\ pc[t] = "stat_rd"
    /\ reg' = [reg EXCEPT ![t] = Get(service_stats, Services[idx[t]])]
    /\ pc' = [pc EXCEPT ![t] = "stat_wr"]
    /\ UNCHANGED <<storeVars, counterVars, envVars, histVars, opVars>>
    /\ UNCHANGED <<text, url, user_id, idx, short_url, phase, url_data>>
    /\ UNCHANGED fileVars

\* Line 161: the write.
WriteStat(t) ==
    /\ pc[t] = "stat_wr"
    /\ service_stats' = SetStat(service_stats, Services[idx[t]], reg[t] + 1)
    /\ pc' = [pc EXCEPT ![t] = "insert"]
    /\ UNCHANGED <<storeVars, services_used, envVars, histVars, opVars>>
    /\ UNCHANGED <<text, url, user_id, idx, short_url, phase, reg, url_data>>
    /\ UNCHANGED fileVars

\* Lines 164-177 with add_url's lines 84-85: build url_data, put it in the store.
StoreUrl(t) ==
    /\ pc[t] = "insert"
    /\ LET rec == UrlData(Uuid4(uuids + 1), user_id[t], url[t], short_url[t],
                          Services[idx[t]], now + 1)
       IN  /\ url_data' = [url_data EXCEPT ![t] = <<rec>>]
           /\ urls' = InsertUrl(urls, rec)
    /\ uuids' = uuids + 1
    /\ now' = now + 1
    /\ phase' = [phase EXCEPT ![t] = "service"]
    /\ pc' = [pc EXCEPT ![t] = "save"]
    /\ UNCHANGED <<urlsFile, counterVars, requests, histVars, opVars>>
    /\ UNCHANGED <<text, url, user_id, idx, short_url, reg>>
    /\ UNCHANGED fileVars

\* _create_ultimate_fallback up to add_url's line 85: lines 251-269 on entry,
\* lines 277-291 when the try block raised.
CreateUltimateFallback(t) ==
    /\ pc[t] \in {"fallback", "text_fallback"}
    /\ LET first == pc[t] = "fallback"
           short == IF first THEN FallbackShortUrl(Uuid4(uuids + 1))
                    ELSE TextShortUrl(url[t])
           drawn == IF first THEN 2 ELSE 1
           rec   == UrlData(Uuid4(uuids + drawn), user_id[t], url[t], short,
                            IF first THEN "Guaranteed Fallback" ELSE "Text Fallback",
                            now + 1)
       IN  /\ short_url' = [short_url EXCEPT ![t] = short]
           /\ url_data' = [url_data EXCEPT ![t] = <<rec>>]
           /\ urls' = InsertUrl(urls, rec)
           /\ uuids' = uuids + drawn
           /\ phase' = [phase EXCEPT ![t] = IF first THEN "fallback" ELSE "text"]
    /\ now' = now + 1
    /\ pc' = [pc EXCEPT ![t] = "save"]
    /\ UNCHANGED <<urlsFile, counterVars, requests, histVars, opVars>>
    /\ UNCHANGED <<text, url, user_id, idx, reg>>
    /\ UNCHANGED fileVars

\* add_url's line 86, save_urls -> _save_json(URLS_FILE, self.urls), and the
\* return to add_url's call site.
SaveUrls(t) ==
    /\ pc[t] = "save"
    /\ \E w \in WriteOutcomes :
         LET r  == SaveJson(urlsFile, urls, w)
             nx == AfterSave(phase[t], idx[t], r)
         IN  /\ urlsFile' = r.file
             /\ writes' = [writes EXCEPT ![t] = Append(@, w)]
             /\ pc' = [pc EXCEPT ![t] = nx.pc]
             /\ idx' = [idx EXCEPT ![t] = nx.idx]
    /\ UNCHANGED <<urls, counterVars, envVars, opVars>>
    /\ UNCHANGED <<text, url, user_id, short_url, phase, reg, url_data, attempts, pre, failed>>
    /\ UNCHANGED fileVars

\* The worker is free again: its locals are gone.
Release(t) ==
    /\ pc' = [pc EXCEPT ![t] = "idle"]
    /\ text' = [text EXCEPT ![t] = ""]
    /\ url' = [url EXCEPT ![t] = ""]
    /\ user_id' = [user_id EXCEPT ![t] = 0]
    /\ idx' = [idx EXCEPT ![t] = 1]
    /\ short_url' = [short_url EXCEPT ![t] = ""]
    /\ phase' = [phase EXCEPT ![t] = "service"]
    /\ reg' = [reg EXCEPT ![t] = 0]
    /\ url_data' = [url_data EXCEPT ![t] = <<>>]
    /\ attempts' = [attempts EXCEPT ![t] = <<>>]
    /\ writes' = [writes EXCEPT ![t] = <<>>]
    /\ pre' = [pre EXCEPT ![t] = NoCall]
    /\ UNCHANGED failed

\* Lines 984-1007 (the success reply) or 1009-1021 (the reply of the handler's
\* except clause, when shorten_url raised).
Reply(t) ==
    /\ pc[t] \in {"returned", "error"}
    /\ Release(t)
    /\ UNCHANGED <<storeVars, counterVars, envVars, opVars>>
    /\ UNCHANGED fileVars

\* Lines 968-974: the "Invalid URL format" reply.
RejectReply(t) ==
    /\ pc[t] = "reject"
    /\ Release(t)
    /\ UNCHANGED <<storeVars, counterVars, envVars, opVars>>
    /\ UNCHANGED fileVars

\* One step of the call worker t is in.
CallStep(t) ==
    \/ Attempt(t)
    \/ ReadUsed(t)
    \/ WriteUsed(t)
    \/ ReadStat(t)
    \/ WriteStat(t)
    \/ StoreUrl(t)
    \/ CreateUltimateFallback(t)
    \/ SaveUrls(t)

AllIdle == \A w \in Workers : pc[w] = "idle"

\* A message arrives while no handler is running.
ReceiveAlone(t) == AllIdle /\ \E txt \in Texts, uid \in Users : Receive(t, txt, uid)

\* Requests are served one at a time (the single logical worker of the
\* scheduling model), by whichever worker thread is handed the message.
Next ==
    \E t \in Workers :
        \/ ReceiveAlone(t)
        \/ CallStep(t)
        \/ Reply(t)
        \/ RejectReply(t)

Spec == Init /\ [][Next]_vars

\* The texts of overlapping requests: one per path through the handler (a
\* command, a rejected text, a text that is shortened).
ConcTexts == { txt \in Texts : Strip(txt) = txt }

\* A message arrives and is handed to a free worker thread, whatever the other
\* workers are doing (the bot dispatches handlers to a pool of threads).
ReceiveAny(t) == \E txt \in ConcTexts, uid \in Users : Receive(t, txt, uid)

\* Requests overlap: the steps of the workers interleave freely.
NextConc ==
    \E t \in Workers :
        \/ ReceiveAny(t)
        \/ CallStep(t)
        \/ Reply(t)
        \/ RejectReply(t)

SpecConc == Init /\ [][NextConc]_vars

----------------------------------------------------------------------------
(* json.dumps / json.loads.  A JSON text is the sequence of its tokens:      *)
(* "{", "}", "[", "]", null, numbers in decimal and strings in double        *)
(* quotes (commas and colons are left out; no string in play needs an        *)
(* escape).  A parsed value carries its Python type: [t, v] with t one of    *)
(* "obj", "arr", "str", "int", "null".                                       *)

Quote(s) == "\"" \o s \o "\""

IsQuoted(tok) ==
    /\ Len(tok) >= 2
    /\ SubSeq(tok, 1, 1) = "\""
    /\ SubSeq(tok, Len(tok), Len(tok)) = "\""

Unquote(tok) == SubSeq(tok, 2, Len(tok) - 1)

Digits == <<"0", "1", "2", "3", "4", "5", "6", "7", "8", "9">>

IsDigit(c) == \E d \in 1..Len(Digits) : Digits[d] = c

IsNumber(tok) == Len(tok) > 0 /\ \A i \in 1..Len(tok) : IsDigit(SubSeq(tok, i, i))

DigitValue(c) == (CHOOSE d \in 1..Len(Digits) : Digits[d] = c) - 1

\* int(tok) for a string of decimal digits
RECURSIVE ParseInt(_)
ParseInt(tok) ==
    IF Len(tok) = 0 THEN 0
    ELSE 10 * ParseInt(SubSeq(tok, 1, Len(tok) - 1))
            + DigitValue(SubSeq(tok, Len(tok), Len(tok)))

\* d[k] = v on a dict
Put(m, k, v) == [x \in DOMAIN m \cup {k} |-> IF x = k THEN v ELSE m[x]]

\* The elements of a set in a fixed order.  The insertion order of a Python
\* dict is not modelled: its items are visited in this order.
RECURSIVE SetToSeq(_)
SetToSeq(S) ==
    IF S = {} THEN <<>>
    ELSE LET x == CHOOSE y \in S : TRUE IN <<x>> \o SetToSeq(S \ {x})

\* list(d.values())
Values(m) == LET ks == SetToSeq(DOMAIN m) IN [i \in 1..Len(ks) |-> m[ks[i]]]

RECURSIVE Flatten(_)
Flatten(ss) == IF ss = <<>> THEN <<>> ELSE Head(ss) \o Flatten(Tail(ss))

JNull == [t |-> "null", v |-> <<>>]

\* The fields of a url_data dict that hold an int; last_clicked holds None
\* (<<>>) or a string (<<s>>); every other field holds a string.
IntFields == {"user_id", "click_count"}

\* json.dumps of one field of a url_data dict
DumpField(k, v) ==
    CASE k \in IntFields    -> ToString(v)
      [] k = "last_clicked" -> IF v = <<>> THEN "null" ELSE Quote(v[1])
      [] OTHER              -> Quote(v)

\* json.dumps of a url_data dict
DumpUrl(r) ==
    LET ks == SetToSeq(DOMAIN r)
    IN  <<"{">> \o Flatten([i \in 1..Len(ks) |-> <<Quote(ks[i]), DumpField(ks[i], r[ks[i]])>>])
               \o <<"}">>

\* json.dumps of a list of url_data dicts
DumpUrls(rs) == <<"[">> \o Flatten([i \in 1..Len(rs) |-> DumpUrl(rs[i])]) \o <<"]">>

ParseFail == [ok |-> FALSE, val |-> JNull, rest |-> <<>>]

\* json.loads, by recursive descent: [ok, val, rest]
RECURSIVE ParseValue(_), ParseMembers(_, _), ParseElements(_, _)
ParseValue(ts) ==
    IF ts = <<>> THEN ParseFail
    ELSE LET h == Head(ts)
             r == Tail(ts)
         IN  CASE h = "{"     -> ParseMembers(r, EmptyMap)
               [] h = "["     -> ParseElements(r, <<>>)
               [] h = "null"  -> [ok |-> TRUE, val |-> JNull, rest |-> r]
               [] IsQuoted(h) -> [ok |-> TRUE, val |-> [t |-> "str", v |-> Unquote(h)],
                                  rest |-> r]
               [] IsNumber(h) -> [ok |-> TRUE, val |-> [t |-> "int", v |-> ParseInt(h)],
                                  rest |-> r]
               [] OTHER       -> ParseFail

ParseMembers(ts, acc) ==
    IF ts = <<>> THEN ParseFail
    ELSE IF Head(ts) = "}"
         THEN [ok |-> TRUE, val |-> [t |-> "obj", v |-> acc], rest |-> Tail(ts)]
         ELSE IF ~IsQuoted(Head(ts)) THEN ParseFail
              ELSE LET pv == ParseValue(Tail(ts))
                   IN  IF ~pv.ok THEN ParseFail
                       ELSE ParseMembers(pv.rest, Put(acc, Unquote(Head(ts)), pv.val))

ParseElements(ts, acc) ==
    IF ts = <<>> THEN ParseFail
    ELSE IF Head(ts) = "]"
         THEN [ok |-> TRUE, val |-> [t |-> "arr", v |-> acc], rest |-> Tail(ts)]
         ELSE LET pv == ParseValue(ts)
              IN  IF ~pv.ok THEN ParseFail
                  ELSE ParseElements(pv.rest, Append(acc, pv.val))

\* json.loads(text): the value, or JSONDecodeError
JsonLoads(ts) ==
    LET p == ParseValue(ts)
    IN  IF p.ok /\ p.rest = <<>> THEN [raised |-> FALSE, val |-> p.val]
        ELSE [raised |-> TRUE, val |-> JNull]

\* The Python dict of a parsed JSON object, in the representation of url_data.
FromJson(e) ==
    [k \in DOMAIN e.v |->
        IF k = "last_clicked"
        THEN IF e.v[k].t = "null" THEN <<>> ELSE <<e.v[k].v>>
        ELSE e.v[k].v]

\* json.dump(self.urls, f) of save_urls: the text of the whole store
DumpStore(m) ==
    LET ks == SetToSeq(DOMAIN m)
    IN  <<"{">> \o Flatten([i \in 1..Len(ks) |-> <<Quote(ks[i])>> \o DumpUrl(m[ks[i]])])
               \o <<"}">>

\* _load_json on the bytes of the file, as [readable, data]: the dict of the
\* records when the text parses to an object, unreadable otherwise.
ReadFile(bytes) ==
    LET p == JsonLoads(bytes)
    IN  IF p.raised \/ p.val.t # "obj" THEN [readable |-> FALSE, data |-> EmptyMap]
        ELSE [readable |-> TRUE,
              data |-> [k \in DOMAIN p.val.v |-> FromJson(p.val.v[k])]]

\* A file object opened with 'w' writes its buffer from offset 0 over what
\* the file holds at that moment; nothing truncates the file again.
Overwrite(bytes, buffer) == buffer \o SubSeq(bytes, Len(buffer) + 1, Len(bytes))

----------------------------------------------------------------------------
(* JSONStorage: loading, queries, click counting *)

\* _load_json, lines 53-62: the parsed file; {} if the file is missing or if
\* reading or parsing it raised.
LoadJson(file) == IF file.readable THEN file.data ELSE EmptyMap

\* Mutant of GetUserUrls: the user_id test is missing.
GetUserUrlsAll(m, uid) == Values(m)

\* get_user_urls, lines 96-102
GetUserUrls(m, uid) == SelectSeq(Values(m), LAMBDA r : r.user_id = uid)

\* url.get('click_count', 0)
ClickCount(r) == IF "click_count" \in DOMAIN r THEN r.click_count ELSE 0

\* sum(url.get('click_count', 0) for url in user_urls)
RECURSIVE SumClicks(_)
SumClicks(rs) == IF rs = <<>> THEN 0 ELSE ClickCount(Head(rs)) + SumClicks(Tail(rs))

\* get_user_stats, lines 120-129
GetUserStats(m, uid) ==
    LET user_urls == GetUserUrls(m, uid)
    IN  [ total_urls   |-> Len(user_urls),
          total_clicks |-> SumClicks(user_urls),
          urls         |-> user_urls ]

\* a / b in Python: the quotient as a fraction, or ZeroDivisionError
Divide(a, b) ==
    IF b = 0 THEN [raised |-> TRUE, num |-> 0, den |-> 0]
    ELSE [raised |-> FALSE, num |-> a, den |-> b]

\* Mutant of AverageClicks: the divisor is total_urls itself.
AverageClicksUnguarded(stats) == Divide(stats.total_clicks, stats.total_urls)

\* show_stats, line 819: stats['total_clicks']/max(stats['total_urls'], 1)
AverageClicks(stats) ==
    Divide(stats.total_clicks,
           IF stats.total_urls > 1 THEN stats.total_urls ELSE 1)

\* Mutant of Clicked: the click also restamps created_at.
ClickedRestamped(m, url_id, t) ==
    [m EXCEPT ![url_id] =
        Put(Put(Put(@, "click_count", ClickCount(@) + 1), "last_clicked", <<IsoFormat(t)>>),
            "created_at", IsoFormat(t))]

\* Mutant of Clicked: the counter is raised by two.
ClickedTwice(m, url_id, t) ==
    [m EXCEPT ![url_id] =
        Put(Put(@, "click_count", ClickCount(@) + 2), "last_clicked", <<IsoFormat(t)>>)]

\* Mutant of Clicked: the counter of every record is raised.
ClickedAll(m, url_id, t) ==
    [k \in DOMAIN m |->
        Put(Put(m[k], "click_count", ClickCount(m[k]) + 1), "last_clicked", <<IsoFormat(t)>>)]

\* increment_click_count, lines 114-115, for a url_id that is in the store.
Clicked(m, url_id, t) ==
    [m EXCEPT ![url_id] =
        Put(Put(@, "click_count", ClickCount(@) + 1), "last_clicked", <<IsoFormat(t)>>)]

----------------------------------------------------------------------------
(* BackupManager: per-user backup and restore.  A ZIP archive is             *)
(* [zip, entries]: zip is FALSE for bytes that zipfile cannot open, entries  *)
(* is the list of its members [name, data], data being a JSON text.          *)

EndsWith(s, p) == Len(s) >= Len(p) /\ SubSeq(s, Len(s) - Len(p) + 1, Len(s)) = p

\* datetime.strftime("%Y%m%d_%H%M%S") at tick t of the clock
StampSeconds(t) == "20261102_0000" \o (IF t < 10 THEN "0" ELSE "") \o ToString(t)

\* json.dumps(backup_data) of create_backup, lines 343-348 and 353
DumpBackup(uid, user_urls, t) ==
    <<"{", Quote("user_id"), ToString(uid),
           Quote("backup_created"), Quote(IsoFormat(t)),
           Quote("urls_count"), ToString(Len(user_urls)),
           Quote("urls")>> \o DumpUrls(user_urls) \o <<"}">>

\* Mutant of CreateBackup: the records of every user are exported.
CreateBackupAll(m, uid, t) ==
    [ zip     |-> TRUE,
      entries |-> << [ name |-> "url_backup_" \o ToString(uid) \o "_"
                                  \o StampSeconds(t) \o ".json",
                       data |-> DumpBackup(uid, Values(m), t) ] >> ]

\* Mutant of CreateBackup: the member of the archive is named .txt.
CreateBackupTxt(m, uid, t) ==
    [ zip     |-> TRUE,
      entries |-> << [ name |-> "url_backup_" \o ToString(uid) \o "_"
                                  \o StampSeconds(t) \o ".txt",
                       data |-> DumpBackup(uid, GetUserUrls(m, uid), t) ] >> ]

\* create_backup, lines 338-363
CreateBackup(m, uid, t) ==
    [ zip     |-> TRUE,
      entries |-> << [ name |-> "url_backup_" \o ToString(uid) \o "_"
                                  \o StampSeconds(t) \o ".json",
                       data |-> DumpBackup(uid, GetUserUrls(m, uid), t) ] >> ]

\* Mutant of Mine: every record of the snapshot is taken.
MineAlways(e, uid) == TRUE

\* Line 458: url_data.get('user_id') == user_id, on a parsed object
Mine(e, uid) ==
    /\ "user_id" \in DOMAIN e.v
    /\ e.v["user_id"].t = "int"
    /\ e.v["user_id"].v = uid

\* Mutant of StoreRestored: the record is filed as a new record, under a key
\* made of its _id and the number of records stored.
StoreRestoredAsNew(m, rec) ==
    Put(m, rec._id \o "-" \o ToString(Cardinality(DOMAIN m)), rec)

\* Mutant of StoreRestored: the record is filed under its short_url.
StoreRestoredByShort(m, rec) == Put(m, rec.short_url, rec)

\* Mutant of StoreRestored: the restored record replaces the store.
StoreRestoredAlone(m, rec) == Put(EmptyMap, rec._id, rec)

\* Line 459: storage.urls[url_data['_id']] = url_data
StoreRestored(m, rec) == Put(m, rec._id, rec)

\* Lines 457-459, the loop over the records of the snapshot: [raised, urls].
\* It raises on an element that is not an object (no .get), on a record of
\* this user without '_id' (KeyError) or with an unhashable '_id'; what was
\* stored before the exception stays stored.
RECURSIVE RestoreLoop(_, _, _)
RestoreLoop(m, elems, uid) ==
    IF elems = <<>> THEN [raised |-> FALSE, urls |-> m]
    ELSE LET e == Head(elems)
         IN  IF e.t # "obj" THEN [raised |-> TRUE, urls |-> m]
             ELSE IF ~Mine(e, uid) THEN RestoreLoop(m, Tail(elems), uid)
             ELSE IF "_id" \notin DOMAIN e.v \/ e.v["_id"].t \in {"obj", "arr"}
                  THEN [raised |-> TRUE, urls |-> m]
                  ELSE RestoreLoop(StoreRestored(m, FromJson(e)), Tail(elems), uid)

\* Line 457, backup_data.get('urls', []) and what the for loop iterates over:
\* [raised, elems].  Not a dict: no .get; an int or None: not iterable; a
\* string or a dict: iterated by characters or keys, which are strings.
UrlsOf(doc) ==
    IF doc.t # "obj" THEN [raised |-> TRUE, elems |-> <<>>]
    ELSE IF "urls" \notin DOMAIN doc.v THEN [raised |-> FALSE, elems |-> <<>>]
    ELSE LET u == doc.v["urls"]
         IN  CASE u.t = "arr"  -> [raised |-> FALSE, elems |-> u.v]
               [] u.t = "str"  -> [raised |-> FALSE,
                                   elems |-> [i \in 1..Len(u.v) |->
                                                [t |-> "str", v |-> SubSeq(u.v, i, i)]]]
               [] u.t = "obj"  -> [raised |-> FALSE,
                                   elems |-> [i \in 1..Len(SetToSeq(DOMAIN u.v)) |->
                                                [t |-> "str", v |-> SetToSeq(DOMAIN u.v)[i]]]]
               [] OTHER        -> [raised |-> TRUE, elems |-> <<>>]

\* Names of the archive's members that end with .json, in namelist order.
JsonEntries(blob) == SelectSeq(blob.entries, LAMBDA en : EndsWith(en.name, ".json"))

\* The try block of restore_backup, lines 447-462: [raised, ret, urls, saved].
\* Only the first .json member is processed (return True inside the loop).
RestoreBody(m, uid, blob) ==
    IF ~blob.zip THEN [raised |-> TRUE, ret |-> FALSE, urls |-> m, saved |-> FALSE]
    ELSE IF JsonEntries(blob) = <<>>
         THEN [raised |-> FALSE, ret |-> FALSE, urls |-> m, saved |-> FALSE]
         ELSE LET doc == JsonLoads(JsonEntries(blob)[1].data)
                  us  == UrlsOf(doc.val)
                  lp  == RestoreLoop(m, us.elems, uid)
              IN  IF doc.raised \/ us.raised
                  THEN [raised |-> TRUE, ret |-> FALSE, urls |-> m, saved |-> FALSE]
                  ELSE IF lp.raised
                       THEN [raised |-> TRUE, ret |-> FALSE, urls |-> lp.urls,
                             saved |-> FALSE]
                       ELSE [raised |-> FALSE, ret |-> TRUE, urls |-> lp.urls,
                             saved |-> TRUE]

\* Mutant of ExceptReturnsFalse: the exception is let through.
ExceptPropagates(r) == r

\* Lines 463-465: except Exception -> return False
ExceptReturnsFalse(r) ==
    IF r.raised THEN [r EXCEPT !.raised = FALSE, !.ret = FALSE] ELSE r

\* restore_backup, lines 445-465
RestoreBackup(m, uid, blob) == ExceptReturnsFalse(RestoreBody(m, uid, blob))

----------------------------------------------------------------------------
(* BackupManager: the automatic backup of all data.  backup_dir is the set   *)
(* of files [name, mtime, valid] in auto_backups/.                           *)

\* Lines 437-438: the newest 24 archives are kept.
KeepBackups == 24

\* The values of the OWNER_ID setting: unset, or a Telegram user id.
Owners == { <<>>, <<"42">> }

\* datetime.strftime("%Y%m%d_%H%M") at minute t of the clock
StampMinutes(t) == "20261102_00" \o (IF t < 10 THEN "0" ELSE "") \o ToString(t)

\* Lines 383-384
AutoBackupName(t) == "auto_backup_" \o StampMinutes(t) \o ".zip"

\* Line 429
IsAutoBackup(name) == StartsWith(name, "auto_backup_") /\ EndsWith(name, ".zip")

\* Mutant of Newest: the sort is not reversed, the n oldest files are kept.
RECURSIVE Oldest(_, _)
Oldest(files, n) ==
    IF Cardinality(files) <= n THEN files
    ELSE Oldest(files \ {CHOOSE x \in files : \A y \in files : x.mtime >= y.mtime}, n)

\* The n newest of a set of files; among files of one mtime the choice is
\* arbitrary (the code breaks the tie by path).
RECURSIVE Newest(_, _)
Newest(files, n) ==
    IF Cardinality(files) <= n THEN files
    ELSE Newest(files \ {CHOOSE x \in files : \A y \in files : x.mtime <= y.mtime}, n)

\* cleanup_old_backups, lines 424-443
CleanupOldBackups(dir) ==
    LET autos == {f \in dir : IsAutoBackup(f.name)}
    IN  (dir \ autos) \cup Newest(autos, KeepBackups)

\* open(filepath, 'w') on the directory: the file is created or replaced.
WriteFile(dir, name, t, valid) ==
    {f \in dir : f.name # name} \cup {[name |-> name, mtime |-> t, valid |-> valid]}

\* Mutant of CreateAutoBackup: the OWNER_ID test of line 368 is missing.
CreateAutoBackupUnowned(owner, dir, t, w, delivered) ==
    CASE w = "open_fails" -> [path |-> <<>>, dir |-> dir, sent |-> {}]
      [] w = "dump_fails" ->
           [path |-> <<>>, dir |-> WriteFile(dir, AutoBackupName(t), t, FALSE),
            sent |-> {}]
      [] OTHER ->
           [path |-> <<AutoBackupName(t)>>,
            dir  |-> CleanupOldBackups(WriteFile(dir, AutoBackupName(t), t, TRUE)),
            sent |-> IF delivered /\ owner # <<>> /\ IsNumber(owner[1])
                     THEN {ParseInt(owner[1])} ELSE {}]

\* create_auto_backup, lines 365-402, at minute t with write outcome w;
\* delivered tells whether send_document went through (its failure is
\* swallowed by send_backup_to_owner).  [path, dir, sent]: path is <<>> for
\* the None the function returns without an archive, sent is the set of chat
\* ids the archive went to.
CreateAutoBackup(owner, dir, t, w, delivered) ==
    IF owner = <<>> THEN [path |-> <<>>, dir |-> dir, sent |-> {}]
    ELSE CASE w = "open_fails" -> [path |-> <<>>, dir |-> dir, sent |-> {}]
           [] w = "dump_fails" ->
                [path |-> <<>>, dir |-> WriteFile(dir, AutoBackupName(t), t, FALSE),
                 sent |-> {}]
           [] OTHER ->
                [path |-> <<AutoBackupName(t)>>,
                 dir  |-> CleanupOldBackups(WriteFile(dir, AutoBackupName(t), t, TRUE)),
                 sent |-> IF delivered /\ IsNumber(owner[1])
                          THEN {ParseInt(owner[1])} ELSE {}]

----------------------------------------------------------------------------
(* The operations on the store and the backups, each taken as one step       *)
(* between the requests.                                                     *)

\* What the history variable last keeps of an operation: its name, caller,
\* argument, result, and the store, the backup directory and backup_count as
\* they were when the operation began.
Op(name, uid, id, ok, raised, value, blob) ==
    [ op |-> name, user |-> uid, id |-> id, ok |-> ok, raised |-> raised,
      value |-> value, blob |-> blob, before |-> urls,
      dir_before |-> backup_dir, count_before |-> backup_count ]

\* No handler is running and the run may take another event (a message or a
\* scheduled job).
OpReady == AllIdle /\ requests + backup_count < MaxRequests

\* increment_click_count(url_id), lines 111-118
IncrementClickCount(url_id, w) ==
    /\ OpReady
    /\ requests' = requests + 1
    /\ IF url_id \in DOMAIN urls
       THEN LET new == Clicked(urls, url_id, now + 1)
            IN  /\ urls' = new
                /\ now' = now + 1
                /\ urlsFile' = SaveJson(urlsFile, new, w).file
                /\ last' = Op("click", 0, url_id, TRUE, FALSE, <<>>, <<>>)
       ELSE /\ w = "ok"
            /\ last' = Op("click", 0, url_id, FALSE, FALSE, <<>>, <<>>)
            /\ UNCHANGED <<urls, urlsFile, now>>
    /\ UNCHANGED <<counterVars, uuids, callVars, histVars>>
    /\ UNCHANGED <<OWNER_ID, backup_dir, backup_count>>
    /\ UNCHANGED fileVars

\* show_stats, lines 799-843: get_user_stats and the average of line 819.
ShowStats(uid) ==
    /\ OpReady
    /\ requests' = requests + 1
    /\ LET stats == GetUserStats(urls, uid)
           avg   == AverageClicks(stats)
       IN  last' = Op("stats", uid, "", ~avg.raised, avg.raised,
                      <<[stats |-> stats, avg |-> avg]>>, <<>>)
    /\ UNCHANGED <<storeVars, counterVars, uuids, now, callVars, histVars>>
    /\ UNCHANGED <<OWNER_ID, backup_dir, backup_count>>
    /\ UNCHANGED fileVars

\* handle_backup, lines 876-908: create_backup and the document sent back.
HandleBackup(uid) ==
    /\ OpReady
    /\ requests' = requests + 1
    /\ now' = now + 1
    /\ last' = Op("backup", uid, "", TRUE, FALSE,
                  <<CreateBackup(urls, uid, now + 1)>>, <<>>)
    /\ UNCHANGED <<storeVars, counterVars, uuids, callVars, histVars>>
    /\ UNCHANGED <<OWNER_ID, backup_dir, backup_count>>
    /\ UNCHANGED fileVars

\* handle_document, lines 925-955: restore_backup on the uploaded file, with
\* save_urls (line 461) when the loop went through.
HandleDocument(uid, blob, w) ==
    /\ OpReady
    /\ requests' = requests + 1
    /\ LET r == RestoreBackup(urls, uid, blob)
       IN  /\ urls' = r.urls
           /\ IF r.saved THEN urlsFile' = SaveJson(urlsFile, r.urls, w).file
              ELSE w = "ok" /\ UNCHANGED urlsFile
           /\ last' = Op("restore", uid, "", r.ret, r.raised, <<>>, <<blob>>)
    /\ UNCHANGED <<counterVars, uuids, now, callVars, histVars>>
    /\ UNCHANGED <<OWNER_ID, backup_dir, backup_count>>
    /\ UNCHANGED fileVars

\* backup_job, lines 317-323, run by the scheduler thread; minute tells
\* whether the clock has reached the next minute since the last reading.
BackupJob(minute, w, delivered) ==
    /\ OpReady
    /\ LET r == CreateAutoBackup(OWNER_ID, backup_dir, now + minute, w, delivered)
       IN  /\ backup_dir' = r.dir
           /\ last' = Op("job", 0, "", r.path # <<>>, FALSE, <<r>>, <<>>)
    /\ now' = now + minute
    /\ backup_count' = backup_count + 1
    /\ UNCHANGED <<storeVars, counterVars, uuids, requests, callVars, histVars, OWNER_ID>>
    /\ UNCHANGED fileVars

\* handle_hourly_backup, lines 472-500
HandleHourlyBackup(uid, minute, w, delivered) ==
    /\ OpReady
    /\ requests' = requests + 1
    /\ IF OWNER_ID # <<>> /\ ToString(uid) # OWNER_ID[1]
       THEN /\ minute = 0 /\ w = "ok" /\ delivered
            /\ last' = Op("hourlybackup", uid, "", FALSE, FALSE, <<>>, <<>>)
            /\ UNCHANGED <<backup_dir, now>>
       ELSE LET r == CreateAutoBackup(OWNER_ID, backup_dir, now + minute, w, delivered)
            IN  /\ backup_dir' = r.dir
                /\ now' = now + minute
                /\ last' = Op("hourlybackup", uid, "", r.path # <<>>, FALSE, <<r>>, <<>>)
    /\ UNCHANGED <<storeVars, counterVars, uuids, callVars, histVars>>
    /\ UNCHANGED <<OWNER_ID, backup_count>>
    /\ UNCHANGED fileVars

----------------------------------------------------------------------------
(* The store operations on their own: the bot starts on a data file left by  *)
(* an earlier run and handles clicks, /stats, /backup and uploads.           *)

TheUrl == "https://www.example.com/a/b"

\* Records as shorten_url makes them (UrlData): through a provider, through
\* the hash adapter, through the guaranteed fallback, and the same URL
\* shortened once more by the same user with the same provider answer.
RecA == UrlData(Uuid4(1), 42, TheUrl, "http://is.gd/xyz", "TinyURL Direct", 1)
RecB == UrlData(Uuid4(2), 99, TheUrl, "https://tinyurl.com/" \o Md5Hex8(TheUrl),
                "Custom Hash", 2)
RecC == UrlData(Uuid4(4), 42, TheUrl, FallbackShortUrl(Uuid4(3)),
                "Guaranteed Fallback", 3)
RecD == UrlData(Uuid4(5), 42, TheUrl, "http://is.gd/xyz", "is.gd Simple", 4)

\* The dict holding the records rs under their _id.
StoreOf(rs) == [k \in {r._id : r \in rs} |-> CHOOSE r \in rs : r._id = k]

\* Contents of data/urls.json the bot may start on.
Stores == { StoreOf({}), StoreOf({RecA}), StoreOf({RecA, RecB}),
            StoreOf({RecA, RecB, RecC}) }

\* Uuid and clock readings spent on the records above.
DrawnBefore == 5
ClockBefore == 4

\* Records of hand-made backup files: a record of user 99 that carries the
\* _id of RecA, and a record of user 42 without an _id.
RecE == [RecB EXCEPT !._id = RecA._id]
RecF == [k \in DOMAIN RecC \ {"_id"} |-> RecC[k]]

\* A backup file as create_backup writes it, holding the records rs.
BackupFile(uid, rs) ==
    [ zip     |-> TRUE,
      entries |-> << [ name |-> "url_backup_" \o ToString(uid) \o ".json",
                       data |-> DumpBackup(uid, rs, ClockBefore) ] >> ]

\* Files a user may upload besides a backup just downloaded: bytes that are
\* no ZIP archive, an archive without a .json member, an archive whose .json
\* member is cut off, one whose document is a list, and a backup that user 42
\* took of a store that held RecD.
Uploads ==
    { [zip |-> FALSE, entries |-> <<>>],
      [zip |-> TRUE,  entries |-> <<[name |-> "notes.txt", data |-> <<Quote("hello")>>]>>],
      [zip |-> TRUE,  entries |-> <<[name |-> "url_backup_42.json",
                                     data |-> <<"{", Quote("urls"), "[", "{">>]>>],
      [zip |-> TRUE,  entries |-> <<[name |-> "url_backup_42.json",
                                     data |-> <<"[", "]">>]>>],
      CreateBackup(StoreOf({RecD}), 42, 4) }

\* Backup files edited by hand, whose records carry ids of the data file the
\* bot started on: one of user 99 holding RecE, one of user 42 holding RecD
\* and then RecF.
EditedUploads == { BackupFile(99, <<RecE>>), BackupFile(42, <<RecD, RecF>>) }

\* The archive the latest /backup sent, which the user may upload again.
Downloaded == IF last.op = "backup" THEN {last.value[1]} ELSE {}

\* Record ids a click may name: in some stores they exist, in others not.
ClickIds == {RecA._id, RecB._id}

InitOps ==
    /\ InitProcess
    /\ urlsFile \in {[readable |-> TRUE, data |-> st] : st \in Stores}
                    \cup {[readable |-> FALSE, data |-> EmptyMap]}
    /\ urls = LoadJson(urlsFile)
    /\ uuids = DrawnBefore
    /\ now = ClockBefore
    /\ OWNER_ID = <<>>
    /\ backup_dir = {}
    /\ disk = IF urlsFile.readable THEN DumpStore(urlsFile.data) ELSE <<>>

NextOps ==
    \/ \E url_id \in ClickIds, w \in WriteOutcomes : IncrementClickCount(url_id, w)
    \/ \E uid \in Users : ShowStats(uid)
    \/ \E uid \in Users : HandleBackup(uid)
    \/ \E uid \in Users, blob \in Uploads \cup EditedUploads \cup Downloaded, w \in WriteOutcomes :
         HandleDocument(uid, blob, w)

SpecOps == InitOps /\ [][NextOps]_vars

----------------------------------------------------------------------------
(* Everything together: requests are shortened one at a time by the single   *)
(* logical worker, and between them clicks, backups, restores and the        *)
(* scheduled and manual automatic backups take place.                        *)

TheWorker == CHOOSE t \in Workers : \A u \in Workers : t <= u

InitAll ==
    /\ InitProcess
    /\ urls = EmptyMap
    /\ urlsFile = [readable |-> TRUE, data |-> EmptyMap]
    /\ uuids = 0
    /\ now = 0
    /\ OWNER_ID \in Owners
    /\ backup_dir = {}
    /\ disk = <<"{", "}">>

NextAll ==
    \/ OpReady /\ \E txt \in ConcTexts, uid \in Users : Receive(TheWorker, txt, uid)
    \/ CallStep(TheWorker)
    \/ Reply(TheWorker)
    \/ RejectReply(TheWorker)
    \/ \E url_id \in ClickIds, w \in WriteOutcomes : IncrementClickCount(url_id, w)
    \/ \E uid \in Users : HandleBackup(uid)
    \/ \E uid \in Users, blob \in Uploads \cup Downloaded, w \in WriteOutcomes :
         HandleDocument(uid, blob, w)
    \/ \E minute \in {0, 1}, w \in WriteOutcomes, delivered \in BOOLEAN :
         BackupJob(minute, w, delivered)
    \/ \E uid \in Users, minute \in {0, 1}, w \in WriteOutcomes, delivered \in BOOLEAN :
         HandleHourlyBackup(uid, minute, w, delivered)

SpecAll == InitAll /\ [][NextAll]_vars

----------------------------------------------------------------------------
(* The automatic backups on their own: the bot starts with the archives of   *)
(* earlier runs in auto_backups/ and runs scheduled jobs and /hourlybackup.  *)

\* The archives n earlier hourly backups left, one per minute 1..n.
OldBackups(n) ==
    {[name |-> AutoBackupName(t), mtime |-> t, valid |-> TRUE] : t \in 1..n}

InitBackup ==
    /\ InitProcess
    /\ urls = EmptyMap
    /\ urlsFile = [readable |-> TRUE, data |-> EmptyMap]
    /\ uuids = 0
    /\ OWNER_ID \in Owners
    /\ \E n \in {0, KeepBackups - 1, KeepBackups} :
          /\ backup_dir = OldBackups(n)
          /\ now = n
    /\ disk = <<"{", "}">>

NextBackup ==
    \/ \E minute \in {0, 1}, w \in WriteOutcomes, delivered \in BOOLEAN :
         BackupJob(minute, w, delivered)
    \/ \E uid \in Users, minute \in {0, 1}, w \in WriteOutcomes, delivered \in BOOLEAN :
         HandleHourlyBackup(uid, minute, w, delivered)

SpecBackup == InitBackup /\ [][NextBackup]_vars

----------------------------------------------------------------------------
(* Overlapping requests with the write of _save_json taken step by step, on  *)
(* a file system whose operations succeed: open(filename, 'w') truncates the *)
(* file, json.dump fills the buffer of the file object, and leaving the with *)
(* block flushes the buffer to the file.  Nothing orders these steps between *)
(* the worker threads.                                                       *)

\* Line 67: open(filename, 'w', encoding='utf-8')
OpenFile(t) ==
    /\ pc[t] = "save"
    /\ disk' = <<>>
    /\ urlsFile' = ReadFile(disk')
    /\ fbuf' = [fbuf EXCEPT ![t] = << <<>> >>]
    /\ pc' = [pc EXCEPT ![t] = "dump"]
    /\ UNCHANGED <<urls, counterVars, envVars, histVars, opVars>>
    /\ UNCHANGED <<text, url, user_id, idx, short_url, phase, reg, url_data>>

\* Line 68: json.dump(data, f, indent=2, ensure_ascii=False); the text of a
\* store of this size stays in the buffer of f.
DumpJson(t) ==
    /\ pc[t] = "dump"
    /\ fbuf' = [fbuf EXCEPT ![t] = << fbuf[t][1] \o DumpStore(urls) >>]
    /\ pc' = [pc EXCEPT ![t] = "close"]
    /\ UNCHANGED <<storeVars, counterVars, envVars, histVars, opVars, disk>>
    /\ UNCHANGED <<text, url, user_id, idx, short_url, phase, reg, url_data>>

\* Lines 67-69: the with block is left, f.close() flushes the buffer, and
\* _save_json, save_urls and add_url return.
CloseFile(t) ==
    /\ pc[t] = "close"
    /\ disk' = Overwrite(disk, fbuf[t][1])
    /\ urlsFile' = ReadFile(disk')
    /\ fbuf' = [fbuf EXCEPT ![t] = <<>>]
    /\ writes' = [writes EXCEPT ![t] = Append(@, "ok")]
    /\ LET nx == AfterSave(phase[t], idx[t], [raised |-> FALSE, ok |-> TRUE])
       IN  /\ pc' = [pc EXCEPT ![t] = nx.pc]
           /\ idx' = [idx EXCEPT ![t] = nx.idx]
    /\ UNCHANGED <<urls, counterVars, envVars, opVars>>
    /\ UNCHANGED <<text, url, user_id, short_url, phase, reg, url_data, attempts, pre, failed>>

\* One step of the call worker t is in.
SaveStep(t) ==
    \/ Attempt(t)
    \/ ReadUsed(t)
    \/ WriteUsed(t)
    \/ ReadStat(t)
    \/ WriteStat(t)
    \/ StoreUrl(t)
    \/ CreateUltimateFallback(t)
    \/ OpenFile(t)
    \/ DumpJson(t)
    \/ CloseFile(t)

\* The texts that reach shorten_url.
SaveTexts == { txt \in ConcTexts : HandleText(txt).kind = "shorten" }

\* The sender of the overlapping messages.
TheUser == CHOOSE uid \in Users : \A u \in Users : uid <= u

\* A message of that user that will be shortened arrives and is handed to a
\* free worker, whatever the other workers are doing.
ReceiveShorten(t) == \E txt \in SaveTexts : Receive(t, txt, TheUser)

NextSave ==
    \E t \in Workers :
        \/ ReceiveShorten(t)
        \/ SaveStep(t)
        \/ Reply(t)

SpecSave == Init /\ [][NextSave]_vars

----------------------------------------------------------------------------
(* Vocabulary of the properties *)

\* The validation predicate the properties speak of: an accepted URL scheme.
AcceptedScheme(s) == StartsWith(s, "http://") \/ StartsWith(s, "https://")

\* An attempt whose adapter returned a string that passes validation.
ValidOutcome(a) == ~a.raised /\ a.val # "" /\ AcceptedScheme(a.val)

\* shorten_url has returned to handle_all_messages.
HasReturned(t) == pc[t] = "returned"

\* The record shorten_url returned.
Result(t) == url_data[t][1]

\* The call of worker t is inside shorten_url.
InShorten(t) ==
    pc[t] \in {"try", "used_rd", "used_wr", "stat_rd", "stat_wr", "insert",
               "save", "fallback", "text_fallback"}

\* Index of the first attempt of the call whose outcome validates (0 if none).
FirstValid(t) ==
    IF \E i \in 1..Len(attempts[t]) : ValidOutcome(attempts[t][i])
    THEN CHOOSE i \in 1..Len(attempts[t]) :
            /\ ValidOutcome(attempts[t][i])
            /\ \A j \in 1..(i - 1) : ~ValidOutcome(attempts[t][j])
    ELSE 0

AllAdaptersFailed(t) ==
    /\ Len(attempts[t]) = Len(Services)
    /\ \A i \in 1..Len(attempts[t]) : ~ValidOutcome(attempts[t][i])

WriteFailed(t) == \E i \in 1..Len(writes[t]) : writes[t][i] # "ok"

----------------------------------------------------------------------------
(* C1 *)

\* C1: whatever the providers answer (valid, invalid, raised) and however the
\* store writes end, a call of shorten_url never lets an error escape to its
\* caller, never gets stuck part-way, and comes back with a record.
C1_ShortenNeverFails ==
    \A t \in Workers :
        /\ pc[t] # "error"
        /\ InShorten(t) => ENABLED CallStep(t)
        /\ HasReturned(t) =>
              /\ Len(url_data[t]) = 1
              /\ Result(t).original_url = url[t]
              /\ Result(t).user_id = user_id[t]

\* A call returned although providers raised and answered invalidly and the
\* file write failed.
C1_Witness ==
    \E t \in Workers :
        /\ HasReturned(t)
        /\ \E i \in 1..Len(attempts[t]) : attempts[t][i].raised
        /\ \E i \in 1..Len(attempts[t]) :
              ~attempts[t][i].raised /\ ~AcceptedScheme(attempts[t][i].val)
        /\ writes[t] = <<"dump_fails">>

----------------------------------------------------------------------------
(* C2 *)

\* C2: when shorten_url has returned, the record store holds exactly one
\* record more than when the call began: the old records, untouched, and the
\* returned record under its own id.
C2_ExactlyOneRecordAdded ==
    \A t \in Workers :
        HasReturned(t) =>
            /\ Cardinality(DOMAIN urls) = Cardinality(DOMAIN pre[t].urls) + 1
            /\ DOMAIN urls = DOMAIN pre[t].urls \cup {Result(t)._id}
            /\ urls[Result(t)._id] = Result(t)
            /\ \A k \in DOMAIN pre[t].urls : urls[k] = pre[t].urls[k]

\* A second call returned on the fallback path with a record already stored.
C2_Witness ==
    \E t \in Workers :
        /\ HasReturned(t)
        /\ phase[t] = "fallback"
        /\ Cardinality(DOMAIN pre[t].urls) = 1
        /\ Cardinality(DOMAIN urls) = 2

----------------------------------------------------------------------------
(* C3 *)

\* C3: the record shorten_url returns, on the provider paths and on the
\* fallback paths alike, has a non-empty short_url with an accepted scheme.
C3_ShortUrlValid ==
    \A t \in Workers :
        HasReturned(t) =>
            /\ Result(t).short_url # ""
            /\ AcceptedScheme(Result(t).short_url)

\* A call returned from _create_ultimate_fallback.
C3_Witness ==
    \E t \in Workers :
        /\ HasReturned(t)
        /\ phase[t] # "service"
        /\ Result(t).short_url = "https://short.url/00000001"

----------------------------------------------------------------------------
(* C4 *)

\* C4 as stated: when every adapter failed, the returned record names the
\* provider "fallback" and its short_url passes validation.
C4_FallbackNamedFallback ==
    \A t \in Workers :
        (HasReturned(t) /\ AllAdaptersFailed(t)) =>
            /\ Result(t).service_used = "fallback"
            /\ AcceptedScheme(Result(t).short_url)

\* C4 amended: when every adapter failed, the returned record names the
\* provider "Guaranteed Fallback", its short_url is https://short.url/ followed
\* by eight characters of a fresh uuid, and it passes validation.
C4_FallbackNamedGuaranteed ==
    \A t \in Workers :
        (HasReturned(t) /\ AllAdaptersFailed(t)) =>
            /\ Result(t).service_used = "Guaranteed Fallback"
            /\ AcceptedScheme(Result(t).short_url)
            /\ StartsWith(Result(t).short_url, "https://short.url/")
            /\ Len(Result(t).short_url) = Len("https://short.url/") + 8

\* All four adapters failed, the local hash included, and the call returned.
C4_Witness ==
    \E t \in Workers :
        /\ HasReturned(t)
        /\ AllAdaptersFailed(t)
        /\ attempts[t][Len(Services)].service = "Custom Hash"
        /\ attempts[t][Len(Services)].raised

----------------------------------------------------------------------------
(* C5 *)

\* C5: the attempts of one call are the services in their configured order,
\* each at most once, none after the first whose result validates; so a call
\* makes at most as many attempts as there are services.
C5_AttemptsInOrderUntilSuccess ==
    \A t \in Workers :
        /\ Len(attempts[t]) <= Len(Services)
        /\ \A i \in 1..Len(attempts[t]) :
              /\ attempts[t][i].service = Services[i]
              /\ i < Len(attempts[t]) => ~ValidOutcome(attempts[t][i])
        /\ (pc[t] = "try") => ~\E i \in 1..Len(attempts[t]) : ValidOutcome(attempts[t][i])

\* A call stopped at the second service, whose result validated, and returned.
C5_Witness ==
    \E t \in Workers :
        /\ HasReturned(t)
        /\ Len(attempts[t]) = 2
        /\ ValidOutcome(attempts[t][2])

----------------------------------------------------------------------------
(* C6 *)

\* C6: the returned record carries the name of the first service, in order,
\* whose returned string passes validation, and exactly that string; a
\* returned string without an accepted scheme counts as a failure, and the
\* next service is tried.
C6_FirstValidWins ==
    \A t \in Workers :
        /\ (HasReturned(t) /\ FirstValid(t) # 0) =>
              /\ Result(t).service_used = Services[FirstValid(t)]
              /\ Result(t).short_url = attempts[t][FirstValid(t)].val
        /\ \A i \in 1..Len(attempts[t]) :
              (~attempts[t][i].raised /\ ~AcceptedScheme(attempts[t][i].val)) =>
                  IF i < Len(Services)
                  THEN Len(attempts[t]) > i \/ (pc[t] = "try" /\ idx[t] = i + 1)
                  ELSE pc[t] = "fallback" \/ phase[t] = "fallback"

\* The scenario [fail, fail, success]: the first service raised, the second
\* returned a string without an accepted scheme, the third one's result is used.
C6_Witness ==
    \E t \in Workers :
        /\ HasReturned(t)
        /\ Len(attempts[t]) = 3
        /\ attempts[t][1].raised
        /\ attempts[t][2].val = "httpx://bad"
        /\ Result(t).service_used = "TinyURL API"
        /\ Result(t).short_url = "http://is.gd/xyz"

----------------------------------------------------------------------------
(* C7 *)

\* C7 as stated: a service that failed in an earlier call is in a failed-set
\* that is never reset, and no later call invokes it.
C7_FailedServiceSkipped ==
    \A t \in Workers :
        \A i \in 1..Len(attempts[t]) : attempts[t][i].service \notin pre[t].failed

\* C7 amended: failures are not remembered from one call to the next. Every
\* call starts at the first configured service and skips none: the service it
\* is about to try is the one right after those it has tried, whether or not
\* it failed before, and the fallback is reached only after all were tried.
C7_NoServiceSkipped ==
    \A t \in Workers :
        /\ pc[t] = "try" =>
              /\ idx[t] = Len(attempts[t]) + 1
              /\ idx[t] <= Len(Services)
        /\ pc[t] = "fallback" =>
              {attempts[t][i].service : i \in 1..Len(attempts[t])}
                 = {Services[i] : i \in 1..Len(Services)}

\* A later call is about to try, again, a service that failed in an earlier call,
\* having just tried another one that had failed before.
C7_Witness ==
    \E t \in Workers :
        /\ pc[t] = "try"
        /\ Len(attempts[t]) >= 1
        /\ attempts[t][1].service \in pre[t].failed
        /\ Services[idx[t]] \in pre[t].failed

----------------------------------------------------------------------------
(* C8 *)

\* The workers whose call writes its service's tally in this step.
StatWriters == {t \in Workers : pc[t] = "stat_wr" /\ pc'[t] = "insert"}

\* C8: a call that succeeds through service P raises P's success counter by
\* exactly one and leaves the counters of the other services as they are; no
\* other step of a call, on the fallback path or elsewhere, changes a counter.
C8_CounterRaisedByOne ==
    [][ IF StatWriters = {}
        THEN service_stats' = service_stats
        ELSE \A t \in StatWriters :
                \A i \in 1..Len(Services) :
                    Get(service_stats', Services[i]) =
                        Get(service_stats, Services[i])
                            + (IF i = idx[t] THEN 1 ELSE 0) ]_vars

----------------------------------------------------------------------------
(* C9 *)

\* C9: when the write of the urls file fails in a call in which a service
\* returned a valid short URL, the call still returns, at once, a record with
\* that service's short URL and name: no further service and no fallback is
\* tried, and no error surfaces.
C9_WriteFailureKeepsResult ==
    \A t \in Workers :
        (WriteFailed(t) /\ FirstValid(t) # 0) =>
            /\ HasReturned(t)
            /\ Len(writes[t]) = 1
            /\ Len(attempts[t]) = FirstValid(t)
            /\ phase[t] = "service"
            /\ Result(t).short_url = attempts[t][FirstValid(t)].val
            /\ Result(t).service_used = attempts[t][FirstValid(t)].service
            /\ Result(t)._id \in DOMAIN urls

\* The first service returned a valid short URL, the write left the file
\* truncated, and the call returned that service's record.
C9_Witness ==
    \E t \in Workers :
        /\ HasReturned(t)
        /\ writes[t] = <<"dump_fails">>
        /\ ~urlsFile.readable
        /\ Len(attempts[t]) = 1
        /\ Result(t).service_used = "TinyURL Direct"
        /\ Result(t).short_url = "http://is.gd/xyz"

----------------------------------------------------------------------------
(* C10 *)

\* C10: a text that, after the scheme is prefixed, fails URL validation is
\* rejected before any service is called: no attempt is made, no record is
\* created and no success counter changes.
C10_InvalidRejectedEarly ==
    \A t \in Workers :
        (pc[t] # "idle" /\ ~ValidatorsUrl(url[t])) =>
            /\ pc[t] = "reject"
            /\ attempts[t] = <<>>
            /\ writes[t] = <<>>
            /\ urls = pre[t].urls
            /\ services_used = pre[t].used
            /\ service_stats = pre[t].stats

\* "not a url" was prefixed to "https://not a url" and rejected, with a record
\* of an earlier call in the store.
C10_Witness ==
    \E t \in Workers :
        /\ pc[t] = "reject"
        /\ url[t] = "https://not a url"
        /\ Cardinality(DOMAIN urls) = 1
        /\ services_used = 1

----------------------------------------------------------------------------
(* C11 *)

\* C11 as stated: the URL that is validated, shortened and recorded is the
\* inbound text itself if it starts with http:// or https://, and https://
\* followed by the inbound text otherwise.
C11_PrefixedOrUnchanged ==
    \A t \in Workers :
        pc[t] # "idle" =>
            url[t] = IF AcceptedScheme(text[t]) THEN text[t]
                     ELSE "https://" \o text[t]

\* C11: the inbound text is first stripped of surrounding whitespace; the
\* stripped text is prefixed with https:// if it starts with neither http://
\* nor https:// and is left as it is otherwise; validation is applied to the
\* result, and the record's original_url is the result.
C11_StrippedThenPrefixed ==
    \A t \in Workers :
        pc[t] # "idle" =>
            LET m == Strip(text[t])
            IN  /\ url[t] = IF AcceptedScheme(m) THEN m ELSE "https://" \o m
                /\ pc[t] = "reject" <=> ~ValidatorsUrl(url[t])
                /\ url_data[t] # <<>> =>
                      /\ Result(t).original_url = url[t]
                      /\ urls[Result(t)._id].original_url = url[t]

\* "www.example.com/a/b" was shortened and recorded as
\* "https://www.example.com/a/b".
C11_Witness ==
    \E t \in Workers :
        /\ HasReturned(t)
        /\ text[t] = "www.example.com/a/b"
        /\ Result(t).original_url = "https://www.example.com/a/b"
        /\ urls[Result(t)._id].original_url = "https://www.example.com/a/b"

----------------------------------------------------------------------------
(* Vocabulary of the properties on store operations *)

\* Keys of the records of m that uid owns.
OwnedIds(m, uid) == {k \in DOMAIN m : m[k].user_id = uid}

\* The records of m that uid owns.
Owned(m, uid) == {m[k] : k \in OwnedIds(m, uid)}

\* The short URLs of the records of m that uid owns.
ShortUrls(m, uid) == {r.short_url : r \in Owned(m, uid)}

\* The sum of click_count over the records of m filed under the keys ks.
RECURSIVE ClicksOver(_, _)
ClicksOver(m, ks) ==
    IF ks = {} THEN 0
    ELSE LET k == CHOOSE x \in ks : TRUE
         IN  m[k].click_count + ClicksOver(m, ks \ {k})

\* The elements of a sequence.
Range(sq) == {sq[i] : i \in 1..Len(sq)}

\* The blob is an archive whose first .json member parses.
Parses(blob) ==
    /\ blob.zip
    /\ JsonEntries(blob) # <<>>
    /\ ~JsonLoads(JsonEntries(blob)[1].data).raised

\* The blob is a snapshot: its document is an object whose urls is a list of
\* objects that carry an _id and a user_id.
IsSnapshot(blob) ==
    /\ Parses(blob)
    /\ LET doc == JsonLoads(JsonEntries(blob)[1].data).val
       IN  /\ doc.t = "obj"
           /\ "urls" \in DOMAIN doc.v
           /\ doc.v["urls"].t = "arr"
           /\ \A e \in Range(doc.v["urls"].v) :
                e.t = "obj" /\ {"_id", "user_id"} \subseteq DOMAIN e.v

\* The records of a snapshot.
SnapshotRecords(blob) ==
    {FromJson(e) : e \in Range(JsonLoads(JsonEntries(blob)[1].data).val.v["urls"].v)}

\* The latest operation was a restore_backup of the blob Uploaded.
Restored == last.op = "restore"
Uploaded == last.blob[1]

----------------------------------------------------------------------------
(* C12 *)

\* C12: increment_click_count on the id of a stored record returns True,
\* raises that record's click_count by exactly one and sets its last_clicked
\* to the time of the call; on an id that is not in the store it returns
\* False and leaves the store as it was.
C12_ClickCounted ==
    last.op = "click" =>
        /\ ~last.raised
        /\ IF last.id \in DOMAIN last.before
           THEN /\ last.ok
                /\ urls[last.id].click_count = last.before[last.id].click_count + 1
                /\ urls[last.id].last_clicked = <<IsoFormat(now)>>
           ELSE /\ ~last.ok
                /\ urls = last.before

\* A record was clicked twice.
C12_Witness ==
    /\ last.op = "click"
    /\ last.ok
    /\ last.before[last.id].click_count = 1
    /\ urls[last.id].click_count = 2

----------------------------------------------------------------------------
(* C13 *)

\* C13: increment_click_count on record A leaves every other record of the
\* store exactly as it was, and adds or removes none.
C13_OtherRecordsUntouched ==
    last.op = "click" =>
        /\ DOMAIN urls = DOMAIN last.before
        /\ \A k \in DOMAIN urls \ {last.id} : urls[k] = last.before[k]

\* A record was clicked in a store that holds another record of the same
\* owner and a record of another owner.
C13_Witness ==
    /\ last.op = "click"
    /\ last.ok
    /\ urls[last.id].click_count = 1
    /\ \E k \in DOMAIN urls \ {last.id} : urls[k].user_id = urls[last.id].user_id
    /\ \E k \in DOMAIN urls \ {last.id} : urls[k].user_id # urls[last.id].user_id

----------------------------------------------------------------------------
(* C14 *)

\* The file restored is the backup that the same user was sent by the
\* operation just before, taken of the store as it still was.
JustExported ==
    /\ Restored
    /\ Uploaded = CreateBackup(last.before, last.user, now)

\* C14: restoring the backup a user has just been sent returns True and leaves
\* the set of short URLs of that user's records as it was before the export;
\* indeed the whole store is as it was.
C14_RoundTrip ==
    JustExported =>
        /\ last.ok
        /\ ~last.raised
        /\ ShortUrls(urls, last.user) = ShortUrls(last.before, last.user)
        /\ urls = last.before

\* User 42 restored the backup just taken of a store holding two records of
\* theirs and one of user 99.
C14_Witness ==
    /\ JustExported
    /\ last.ok
    /\ last.user = 42
    /\ Cardinality(ShortUrls(urls, 42)) = 2
    /\ ShortUrls(urls, 99) # {}

----------------------------------------------------------------------------
(* C15 *)

\* C15 as stated: after a restore by user Y, every record of the snapshot
\* that carried another owner is in the store with its owner rewritten to Y.
C15_OwnerRewritten ==
    (Restored /\ IsSnapshot(Uploaded)) =>
        \A rec \in SnapshotRecords(Uploaded) :
            rec.user_id # last.user =>
                \E r \in Owned(urls, last.user) : r.short_url = rec.short_url

\* C15: a restore by user Y of a snapshot takes only the records whose
\* user_id is Y and stores each of them as it is in the snapshot (no owner is
\* rewritten, no field is added); records that carry another owner are
\* skipped, so a snapshot of X's records restored by Y returns True and
\* leaves the store as it was.
C15_ForeignRecordsSkipped ==
    (Restored /\ IsSnapshot(Uploaded)) =>
        /\ last.ok
        /\ \A k \in DOMAIN urls :
              \/ k \in DOMAIN last.before /\ urls[k] = last.before[k]
              \/ \E rec \in SnapshotRecords(Uploaded) :
                    rec.user_id = last.user /\ rec._id = k /\ urls[k] = rec
        /\ (\A rec \in SnapshotRecords(Uploaded) : rec.user_id # last.user) =>
              urls = last.before

\* User 99 restored the backup of user 42's record RecD: True was returned
\* and user 99 owns nothing of it.
C15_Witness ==
    /\ Restored
    /\ last.user = 99
    /\ IsSnapshot(Uploaded)
    /\ SnapshotRecords(Uploaded) = {RecD}
    /\ last.ok
    /\ RecD._id \notin DOMAIN urls
    /\ RecD.short_url \notin ShortUrls(urls, 99)

----------------------------------------------------------------------------
(* C16 *)

\* Number of records of m with the short_url and the owner of record r.
SamePair(m, r) ==
    Cardinality({k \in DOMAIN m : m[k].short_url = r.short_url /\ m[k].user_id = r.user_id})

\* C16 as stated: a restore never raises the number of stored records that
\* share one (short_url, owner) pair.
C16_UpsertByShortUrlAndOwner ==
    (Restored /\ last.ok) =>
        \A k \in DOMAIN last.before :
            SamePair(urls, last.before[k]) <= SamePair(last.before, last.before[k])

\* C16: restore is an upsert keyed on the record's _id: every snapshot record
\* of the restoring user is afterwards in the store under its _id, replacing
\* whatever was filed there, and the keys of the store are those it had plus
\* the _ids of these records; records that share the short_url and owner of a
\* stored record but not its _id are added next to it.
C16_UpsertById ==
    (Restored /\ IsSnapshot(Uploaded)) =>
        LET mine == {rec \in SnapshotRecords(Uploaded) : rec.user_id = last.user}
        IN  /\ \A rec \in mine :
                  /\ rec._id \in DOMAIN urls
                  /\ urls[rec._id] \in mine
            /\ DOMAIN urls = DOMAIN last.before \cup {rec._id : rec \in mine}

\* User 42, who owns RecA, restored a backup holding RecD, which has RecA's
\* short_url and owner: both records are in the store.
C16_Witness ==
    /\ Restored
    /\ last.ok
    /\ last.user = 42
    /\ RecA._id \in DOMAIN last.before
    /\ RecD._id \in DOMAIN urls \ DOMAIN last.before
    /\ SamePair(urls, RecA) = 2

----------------------------------------------------------------------------
(* C17 *)

\* C17: restore_backup returns False and raises nothing when the uploaded
\* bytes are no archive, when the archive has no .json member, and when the
\* .json member cannot be parsed.
C17_InvalidSnapshotReturnsFalse ==
    (Restored /\ ~Parses(Uploaded)) =>
        /\ ~last.ok
        /\ ~last.raised

\* An archive whose .json member is cut off was uploaded and refused.
C17_Witness ==
    /\ Restored
    /\ Uploaded.zip
    /\ JsonEntries(Uploaded) # <<>>
    /\ JsonLoads(JsonEntries(Uploaded)[1].data).raised
    /\ ~last.ok

----------------------------------------------------------------------------
(* C18 *)

\* What /stats computed: get_user_stats' dict and the average.
Stats   == last.value[1].stats
Average == last.value[1].avg

\* C18: get_user_stats(user) returns total_urls equal to the number of stored
\* records of that user and total_clicks equal to the sum of their
\* click_count; for a user without records both are 0, and the average shown
\* is 0, computed without a division error.
C18_StatsCountAndSum ==
    last.op = "stats" =>
        /\ ~last.raised
        /\ Stats.total_urls = Cardinality(OwnedIds(urls, last.user))
        /\ Stats.total_clicks = ClicksOver(urls, OwnedIds(urls, last.user))
        /\ ~Average.raised
        /\ OwnedIds(urls, last.user) = {} =>
              /\ Stats.total_urls = 0
              /\ Stats.total_clicks = 0
              /\ Average.num = 0

\* /stats of a user without records, in a store that holds records of
\* another user.
C18_Witness ==
    /\ last.op = "stats"
    /\ urls # EmptyMap
    /\ Stats.total_urls = 0
    /\ Average.num = 0
    /\ ~Average.raised

----------------------------------------------------------------------------
(* C19 *)

\* C19: get_user_urls(user) returns each stored record of that user once and
\* no other record; and when data/urls.json could not be loaded the store is
\* empty and get_user_urls returns the empty list for every user.
C19_AllAndOnlyOwned ==
    /\ last.op = "stats" =>
          /\ Range(Stats.urls) = Owned(urls, last.user)
          /\ Len(Stats.urls) = Cardinality(OwnedIds(urls, last.user))
    /\ (requests = 0 /\ ~urlsFile.readable) =>
          /\ urls = EmptyMap
          /\ \A uid \in Users : GetUserUrls(urls, uid) = <<>>
    /\ (last.op = "stats" /\ urls = EmptyMap) => Stats.urls = <<>>

\* The list returned for user 42 holds their two records and not the record
\* of user 99.
C19_Witness ==
    /\ last.op = "stats"
    /\ last.user = 42
    /\ Len(Stats.urls) = 2
    /\ Cardinality(DOMAIN urls) = 3

----------------------------------------------------------------------------
(* C20 *)

\* C20: no step of a shorten call, of increment_click_count, of a backup, of a
\* restore or of an automatic backup removes a key from storage.urls: the set
\* of record ids only grows or stays the same.
C20_NoRecordRemoved == [][DOMAIN urls \subseteq DOMAIN urls']_vars

\* A restore added a record to a store that held a record made by a shorten
\* call of this run.
C20_Witness ==
    /\ Restored
    /\ last.ok
    /\ last.before # EmptyMap
    /\ DOMAIN last.before \subseteq DOMAIN urls
    /\ DOMAIN urls # DOMAIN last.before

----------------------------------------------------------------------------
(* C21 *)

\* The document of the archive that /backup just sent, as json.loads reads it.
Exported == last.op = "backup"
ExportedDoc == JsonLoads(JsonEntries(last.value[1])[1].data).val

\* The records in the urls list of that document.
ExportedUrls == [i \in 1..Len(ExportedDoc.v["urls"].v) |-> FromJson(ExportedDoc.v["urls"].v[i])]

\* C21 as stated: the document holds exactly the user's records, urls_count
\* is their number, and it carries a clicks list with clicks_count equal to
\* its length.
C21_SnapshotWithClicks ==
    Exported =>
        /\ Range(ExportedUrls) = Owned(urls, last.user)
        /\ ExportedDoc.v["urls_count"].v = Len(ExportedUrls)
        /\ {"clicks", "clicks_count"} \subseteq DOMAIN ExportedDoc.v
        /\ ExportedDoc.v["clicks_count"].v = Len(ExportedDoc.v["clicks"].v)

\* C21: the document of an exported backup has the fields user_id,
\* backup_created, urls_count and urls and no others (no clicks, no
\* clicks_count); urls holds each stored record of the user once and no
\* record of another user, and urls_count is the length of urls.
C21_SnapshotOfUrls ==
    Exported =>
        /\ ExportedDoc.t = "obj"
        /\ DOMAIN ExportedDoc.v = {"user_id", "backup_created", "urls_count", "urls"}
        /\ ExportedDoc.v["user_id"].v = last.user
        /\ Range(ExportedUrls) = Owned(urls, last.user)
        /\ \A i \in 1..Len(ExportedUrls) : ExportedUrls[i].user_id = last.user
        /\ Len(ExportedUrls) = Cardinality(OwnedIds(urls, last.user))
        /\ ExportedDoc.v["urls_count"].v = Len(ExportedUrls)

\* User 42 exported two records, one of them clicked, from a store that also
\* holds a record of user 99.
C21_Witness ==
    /\ Exported
    /\ last.user = 42
    /\ Len(ExportedUrls) = 2
    /\ \E i \in 1..2 : ExportedUrls[i].click_count = 1
    /\ OwnedIds(urls, 99) # {}

----------------------------------------------------------------------------
(* C22 *)

\* Number of stored records made through the service named name.
MadeBy(name) == Cardinality({k \in DOMAIN urls : urls[k].service_used = name})

\* C22: once the calls in progress have completed, the counters reflect every
\* call that succeeded through a service: services_used is the number of
\* records made through the services, and each service's counter is the
\* number of records made through it, under every interleaving of the calls.
C22_NoLostUpdate ==
    AllIdle =>
        /\ \A i \in 1..Len(Services) :
              Get(service_stats, Services[i]) = MadeBy(Services[i])
        /\ services_used =
              Cardinality({k \in DOMAIN urls : urls[k].service_used \in Range(Services)})

----------------------------------------------------------------------------
(* C23 *)

\* The latest operation was a run of create_auto_backup, by the scheduler or
\* by /hourlybackup, that went through to its return of the archive's path.
AutoBackupDone == last.op \in {"job", "hourlybackup"} /\ last.ok

\* The files of auto_backups/ that cleanup_old_backups counts.
AutoBackups(dir) == {f \in dir : IsAutoBackup(f.name)}

\* The files that were in the directory before the run and are gone after it.
Removed == {f \in last.dir_before : \A g \in backup_dir : g.name # f.name}

----------------------------------------------------------------------------
(* C24 *)

\* The fields of a record that are set when it is made.
FixedFields ==
    {"_id", "user_id", "original_url", "short_url", "service_used", "created_at"}

\* C24: a step of a shorten call changes no record that is already in the
\* store, and increment_click_count changes of the records in the store
\* nothing but click_count and last_clicked: _id, user_id, original_url,
\* short_url, service_used and created_at stay as they are.  (A step that
\* leaves last alone is a step of a shorten call, or an operation repeated
\* with the same result on the same store.)
C24_FixedFieldsKept ==
    [][ /\ last' = last =>
            \A k \in DOMAIN urls : k \in DOMAIN urls' /\ urls'[k] = urls[k]
        /\ (last' # last /\ last'.op = "click") =>
            \A k \in DOMAIN urls :
                /\ k \in DOMAIN urls'
                /\ DOMAIN urls'[k] = DOMAIN urls[k]
                /\ \A f \in FixedFields \cap DOMAIN urls[k] : urls'[k][f] = urls[k][f] ]_vars

\* A record made by a shorten call of this run was clicked.
C24_Witness ==
    /\ last.op = "click"
    /\ last.ok
    /\ services_used = 1
    /\ urls[last.id].service_used \in Range(Services)
    /\ urls[last.id].click_count = 1
    /\ urls[last.id].created_at = last.before[last.id].created_at

----------------------------------------------------------------------------
(* C25 *)

\* C25: a restore by a user neither creates nor changes a record owned by
\* another user: every record that another user owned before the restore is
\* in the store unchanged afterwards, and every record that another user owns
\* afterwards was there, the same, before.
C25_OthersRecordsKept ==
    Restored =>
        /\ \A k \in DOMAIN last.before :
             last.before[k].user_id # last.user =>
                k \in DOMAIN urls /\ urls[k] = last.before[k]
        /\ \A k \in DOMAIN urls :
             urls[k].user_id # last.user =>
                k \in DOMAIN last.before /\ urls[k] = last.before[k]

----------------------------------------------------------------------------
(* C26 *)

\* C26: whenever restore_backup returns False the store is as it was before
\* the call, in memory and on disk.
C26_FailedRestoreChangesNothing ==
    (Restored /\ ~last.ok) => urls = last.before

----------------------------------------------------------------------------
(* C27 *)

\* The latest operation was a scheduled backup job or a /hourlybackup.
BackupRun == last.op \in {"job", "hourlybackup"}

\* The chats the latest operation sent an archive of all data to.
SentTo == IF last.value = <<>> THEN {} ELSE last.value[1].sent

\* The latest operation wrote or removed no file of auto_backups/.
NoArchiveWritten == backup_dir = last.dir_before

\* C27: a /hourlybackup of a user who is not the configured owner writes no
\* archive and sends no document; while no owner is configured, no run of the
\* automatic backup (scheduled or by /hourlybackup of any user) writes or
\* sends an archive; and an archive that is sent goes to the chat of the
\* configured owner.
C27_OnlyForOwner ==
    /\ (last.op = "hourlybackup" /\ OWNER_ID # <<>> /\ ToString(last.user) # OWNER_ID[1])
          => NoArchiveWritten /\ SentTo = {} /\ ~last.ok
    /\ (BackupRun /\ OWNER_ID = <<>>) => NoArchiveWritten /\ SentTo = {} /\ ~last.ok
    /\ BackupRun =>
          \A chat \in SentTo : OWNER_ID # <<>> /\ ToString(chat) = OWNER_ID[1]

\* User 99 asked for /hourlybackup while 42 is the owner and archives of
\* earlier runs are in the directory.
C27_Witness ==
    /\ last.op = "hourlybackup"
    /\ OWNER_ID = <<"42">>
    /\ last.user = 99
    /\ ~last.ok
    /\ AutoBackups(backup_dir) # {}
    /\ NoArchiveWritten

----------------------------------------------------------------------------
(* C28 *)

\* C28: a scheduled backup job raises backup_count by one when it produced an
\* archive and leaves it alone when it produced none.
C28_CountsArchives ==
    last.op = "job" =>
        backup_count = last.count_before + (IF last.ok THEN 1 ELSE 0)

----------------------------------------------------------------------------
(* C29 *)

\* C29: restoring a valid snapshot a second time, right after a restore of
\* the same snapshot by the same user, leaves the store as the first restore
\* left it.
C29_RestoreIdempotent ==
    [][ ( /\ Restored
          /\ IsSnapshot(Uploaded)
          /\ requests' # requests
          /\ last'.op = "restore"
          /\ last'.user = last.user
          /\ last'.blob = last.blob ) => urls' = urls ]_vars

\* The second of two restores in a row of a snapshot holding RecD, which the
\* data file the bot started on did not hold.
C29_Witness ==
    /\ Restored
    /\ IsSnapshot(Uploaded)
    /\ last.ok
    /\ requests = 2
    /\ RecD \in SnapshotRecords(Uploaded)
    /\ RecD._id \in DOMAIN last.before
    /\ urls = last.before

----------------------------------------------------------------------------
(* C30 *)

\* C30: once every shorten call of the run has completed, data/urls.json
\* holds every record of the in-memory store.
C30_FileHoldsEveryRecord ==
    (AllIdle /\ requests = MaxRequests) =>
        /\ ReadFile(disk).readable
        /\ \A k \in DOMAIN urls :
             k \in DOMAIN ReadFile(disk).data /\ ReadFile(disk).data[k] = urls[k]

====
